---- MODULE Spec2Model ----
(***************************************************************************)
(* The minikube lifecycle controller (src/src/k8s-engine/minikube.js) and  *)
(* the cluster access client it owns (src/unnamed/part_000).               *)
(*                                                                         *)
(* One step of the model is one turn of the Node.js event loop: a public   *)
(* method call, a timer (sleep) firing, a subprocess 'exit' event or the   *)
(* completion of the sudo prompt / of the data removal, together with all  *)
(* promise continuations (microtasks) that run before the next event.      *)
(*                                                                         *)
(* Spec is the controller with its clients reduced to what the controller  *)
(* does to them (construct, subscribe, destroy).  ClientSpec is one client *)
(* with its forwarding table, its listeners and its watch cache.           *)
(***************************************************************************)
EXTENDS Integers, Sequences, FiniteSets, TLC

\* Number of public lifecycle calls issued in one behaviour.
MaxCalls == 2

\* Number of forwardPort / cancelForwardPort calls issued on one client.
MaxRequests == 3

\* Number of service watch events delivered to one client.
MaxWatch == 1

\* Number of connections the listeners of one client accept.
MaxConnections == 1

\* K8s.State (src/src/k8s-engine/k8s.ts)
STOPPED == 0
STARTING == 1
STARTED == 2
STOPPING == 3
ERROR == 4

\* #client = null
NoClient == 0
\* #current = undefined
NoProc == 0
\* the 'exit' event's code argument is null when the child ended by a signal
NoCode == -1
\* the exit code that, with the permissions message on stdout, asks for sudo
PermsCode == 80
\* ForwardingMap.get(...) found nothing: undefined
NoServer == 0
\* server.address() is null, forwardPort returns undefined, listenPort is undefined
NoPort == 0
\* parseInt of a string that does not start with a digit
NaN == -1

\* stderr of a subprocess, cut into the pieces the downgrade pattern tells apart
DowngradePattern ==
  << "X Exiting due to K8S_DOWNGRADE_UNSUPPORTED:",
     "Unable to safely downgrade",
     "* Suggestion: 1)",
     "Recreate the cluster by running:",
     "minikube delete -p rancher-desktop",
     "minikube start -p rancher-desktop --kubernetes-version=",
     "\n" >>

Stderrs ==
  { << "boom" >>,
    << "log" >> \o DowngradePattern \o << "tail" >>,
    SubSeq(DowngradePattern, 1, 3) }

VARIABLES
  internalState,  \* Minikube.#internalState
  client,         \* Minikube.#client: index into clients, or NoClient
  currentType,    \* Minikube.#currentType
  current,        \* Minikube.#current: index into procs, or NoProc
  clients,        \* every K8s.Client constructed so far
  procs,          \* every subprocess spawned so far
  emitted,        \* 'state-changed' events, as the subscribers saw them
  calls,          \* the public calls issued so far and where each one stands
  ncalls,         \* how many calls were issued
  event,          \* the event the last turn of the event loop handled
  servers,        \* KubeClient.servers: the forwarding table, key -> net.Server
  netServers,     \* every net.Server the client created
  services,       \* KubeClient.services: the watch cache, as (namespace, name, port)
  notified,       \* 'service-changed' events of the client, as its subscribers saw them
  requests,       \* the forwardPort / cancelForwardPort calls and where each one stands
  nrequests,      \* how many of them were issued
  nwatch,         \* how many watch events were delivered
  shutdown,       \* KubeClient.shutdown
  subscribers,    \* how many listeners the client has for 'service-changed'
  conns,          \* the connections the listeners accepted and where each handler stands
  kevent,         \* the event the client's last turn of the event loop handled
  cfg,            \* Minikube.cfg: the kubernetes settings
  configFile,     \* what reading the profile's config.json gives
  reasons         \* the requiresRestartReasons() call and where it stands

\* the controller's variables
cvars ==
  << internalState, client, currentType, current, clients, procs, emitted, calls, ncalls, event >>

\* the client's variables
kvars ==
  << servers, netServers, services, notified, requests, nrequests, nwatch, shutdown,
     subscribers, conns, kevent >>

\* the settings, the stored configuration and the question about them
rvars == << cfg, configFile, reasons >>

vars == << cvars, kvars, rvars >>

CallIds == 1..MaxCalls

NoErr == [context |-> "none", errorCode |-> NoCode, message |-> << >>]

IdleCall ==
  [op |-> "none", fn |-> "none", pc |-> "idle", result |-> "pending",
   err |-> NoErr, found |-> NoCode]

\* The controller object, as a value the handlers below transform.
This ==
  [internalState |-> internalState, client |-> client, currentType |-> currentType,
   current |-> current, clients |-> clients, procs |-> procs, emitted |-> emitted]

\* An event: a public call, a timer, a child's 'exit' (code, sig, what it wrote),
\* the end of the sudo prompt or of the data removal.
NoEvent ==
  [type |-> "none", call |-> 0, fn |-> "none", proc |-> NoProc, code |-> NoCode,
   sig |-> "null", permsMsg |-> FALSE, stderr |-> << >>, ok |-> TRUE]

-----------------------------------------------------------------------------
(* KubeClient *)

\* server.close(): a listening server stops listening at once; the 'close'
\* event follows.  The lookup of a server still binding is not withdrawn.
closeServer(server) ==
  [server EXCEPT !.state = IF @ = "listening" THEN "closed" ELSE @, !.closing = TRUE]

\* no net.Server was created
NoListener == [state |-> "none", closing |-> FALSE]

\* new K8s.Client(): shutdown = false; listeners counts the controller's
\* 'service-changed' subscriptions on it; entry and server are its forwarding
\* table and its listener for the one service forwarded through the controller.
KubeClient(relay) ==
  [shutdown |-> FALSE, listeners |-> IF relay THEN 1 ELSE 0,
   entry |-> FALSE, server |-> NoListener]

\* KubeClient.destroy(): the registered listener is closed, its entry stays
destroy(cs, k) ==
  IF k = NoClient THEN cs
  ELSE [cs EXCEPT ![k] = [@ EXCEPT !.shutdown = TRUE, !.listeners = 0,
                                   !.server = IF cs[k].entry THEN closeServer(@) ELSE @]]

IsLive(M, k) == k # NoClient /\ ~M.clients[k].shutdown

-----------------------------------------------------------------------------
(* Minikube *)

\* mutant: the setter's switch without its STOPPING case
TearsDownWithoutStopping(value) == value \in {STOPPED, ERROR}

\* the states whose setter branch tears the client down
TearsDown(value) == value \in {STOPPING, STOPPED, ERROR}

\* set #state(value); by is the call on whose behalf the handler runs
SetState(M, value, by) ==
  LET M1 == [M EXCEPT !.internalState = value,
                      !.emitted = Append(@, [state |-> value, client |-> M.client,
                                             live |-> IsLive(M, M.client), by |-> by])]
  IN IF TearsDown(value)
       THEN [M1 EXCEPT !.clients = destroy(@, M.client), !.client = NoClient]
       ELSE M1

\* mutant: the wait loops test for a start only, as stop()'s first test does
BusyWithStartOnly(M) == M.currentType = "start"

\* the wait loops' condition: while (this.#currentType !== undefined)
Busy(M) == M.currentType # "undefined"

\* mutant: clear() leaves the operation current
clearNothing(M) == M

clear(M) == [M EXCEPT !.current = NoProc, !.currentType = "undefined"]

\* mutant: the new client is held but nothing listens to it
NewClientUnheard(M, relay) ==
  [M EXCEPT !.clients = Append(@, KubeClient(FALSE)), !.client = Len(M.clients) + 1]

\* this.#client = new K8s.Client(), with or without this.#client.on('service-changed', ...)
NewClient(M, relay) ==
  [M EXCEPT !.clients = Append(@, KubeClient(relay)), !.client = Len(M.clients) + 1]

\* spawn(resources.executable('minikube'), ...); this.#current = child
Spawn(M, kind, owner, nested, handled) ==
  [M EXCEPT !.procs = Append(@, [kind |-> kind, owner |-> owner, nested |-> nested,
                                 alive |-> TRUE, signalled |-> FALSE, handled |-> handled]),
            !.current = Len(M.procs) + 1]

\* mutant: stop() does not signal the child
killNothing(M, p) == M

\* child.kill(sig): nothing is sent to a child that has exited
kill(M, p) ==
  IF M.procs[p].alive THEN [M EXCEPT !.procs[p].signalled = TRUE] ELSE M

Exited(M, p) == [M EXCEPT !.procs[p].alive = FALSE]

\* a method's promise settles; the first settlement is the one that counts
Settle(cr, result, err) ==
  IF cr.result = "pending" THEN [cr EXCEPT !.result = result, !.err = err] ELSE cr

Done(cr) == [cr EXCEPT !.pc = "done", !.fn = "none"]

Sleep(cr, fn) == [cr EXCEPT !.pc = "sleep", !.fn = fn]

-----------------------------------------------------------------------------
(* customizeMinikubeMessage *)

MatchAt(m, i) ==
  /\ i + Len(DowngradePattern) - 1 <= Len(m)
  /\ SubSeq(m, i, i + Len(DowngradePattern) - 1) = DowngradePattern

Matches(m) == \E i \in 1..Len(m) : MatchAt(m, i)

customizeMinikubeMessage(errorMessage) ==
  IF Matches(errorMessage)
    THEN LET i == CHOOSE j \in 1..Len(errorMessage) :
                    MatchAt(errorMessage, j) /\ \A k \in 1..(j - 1) : ~MatchAt(errorMessage, k)
         IN << errorMessage[i + 1], "Suggested fix:", errorMessage[i + 3],
               "export MINIKUBE_HOME=", errorMessage[i + 4], errorMessage[i + 5],
               "--driver=hyperkit" >>
    ELSE errorMessage

-----------------------------------------------------------------------------
(* start *)

UnstoppedError ==
  [context |-> "Attempting to start unstopped Kubernetes cluster",
   errorCode |-> NoCode, message |-> << >>]

\* if (!nested && this.#state !== K8s.State.STOPPED) reject(...)
StartRejected(M, nested) == ~nested /\ M.internalState # STOPPED

\* start(): from this.#currentType = 'start' to the end of the promise executor
StartBody(M, c, cr, nested) ==
  LET M1 == [M EXCEPT !.currentType = "start"]
      cr1 == IF nested THEN cr ELSE [cr EXCEPT !.found = M1.internalState]
      cr2 == IF StartRejected(M1, nested) THEN Settle(cr1, "failed", UnstoppedError) ELSE cr1
      M2 == SetState(M1, STARTING, c)
      M3 == Spawn(M2, "start", c, nested, TRUE)
  IN [M |-> M3, call |-> [cr2 EXCEPT !.pc = "exit", !.fn = "start"]]

\* start(): if (!nested) while (this.#currentType !== undefined) await sleep(500)
StartEntry(M, c, cr) ==
  IF Busy(M) THEN [M |-> M, call |-> Sleep(cr, "start")] ELSE StartBody(M, c, cr, FALSE)

\* mutant: the code after the awaited promise does not set the state again
AfterStartWithoutState(M, c) ==
  IF M.internalState = STOPPED THEN M ELSE NewClient(M, TRUE)

\* start(): the code after the awaited promise
AfterStart(M, c) ==
  IF M.internalState = STOPPED THEN M ELSE NewClient(SetState(M, STARTED, c), TRUE)

\* mutant: a nested start escalates as well
NeedsSudoAgain(code, permsMsg, nested) == code = PermsCode /\ permsMsg

\* if (code === 80 && permsMsg && !nested)
NeedsSudo(code, permsMsg, nested) == code = PermsCode /\ permsMsg /\ ~nested

\* the state the 'exit' handler of start sets
StartExitState(code, sig) ==
  IF code = 0 THEN STARTED ELSE IF sig = "SIGINT" THEN STOPPED ELSE ERROR

StartFailed(code, sig) == code # 0 /\ sig # "SIGINT"

StartError(code, errorMessage) ==
  [context |-> "starting minikube", errorCode |-> code,
   message |-> customizeMinikubeMessage(errorMessage)]

\* bat.on('exit', ...) of start, and every continuation that runs in its turn
StartExit(M, c, cr, nested, code, sig, permsMsg, errorMessage) ==
  IF NeedsSudo(code, permsMsg, nested)
    THEN [M |-> M, call |-> [cr EXCEPT !.pc = "sudo"]]
    ELSE
      LET failed == StartFailed(code, sig)
          M1 == clear(SetState(M, StartExitState(code, sig), c))
          \* the start() whose promise the handler settled resumes
          rejectedEarly == ~nested /\ cr.result # "pending"
          M2 == IF ~failed /\ ~rejectedEarly THEN AfterStart(M1, c) ELSE M1
          \* nested: startAgain returns into the outer handler (resolve, finally
          \* clear) and then the outer start() resumes
          M3 == IF nested THEN clear(M2) ELSE M2
          M4 == IF nested /\ ~failed /\ cr.result = "pending" THEN AfterStart(M3, c) ELSE M3
          cr1 == IF failed THEN Settle(cr, "failed", StartError(code, errorMessage))
                 ELSE Settle(cr, "ok", NoErr)
      IN [M |-> M4, call |-> Done(cr1)]

SudoError == [context |-> "sudo-prompt", errorCode |-> NoCode, message |-> << >>]

\* startAgain: the sudo prompt finished
StartAgain(M, c, cr, granted) ==
  IF granted
    THEN StartBody(M, c, cr, TRUE)
    ELSE [M |-> clear(M), call |-> Done(Settle(cr, "failed", SudoError))]

-----------------------------------------------------------------------------
(* del *)

NotStoppedError == [context |-> "reject(1)", errorCode |-> 1, message |-> << >>]

\* if (this.state !== K8s.State.STOPPED) reject(1)
DelRejected(M) == M.internalState # STOPPED

\* del(): from this.#currentType = 'del' to the end of the promise executor
DelBody(M, c, cr) ==
  LET M1 == [M EXCEPT !.currentType = "del"]
      cr1 == [cr EXCEPT !.found = M1.internalState]
      cr2 == IF DelRejected(M1) THEN Settle(cr1, "failed", NotStoppedError) ELSE cr1
      M2 == Spawn(M1, "delete", c, FALSE, TRUE)
  IN [M |-> M2, call |-> [cr2 EXCEPT !.pc = "exit", !.fn = "del"]]

DelEntry(M, c, cr) ==
  IF Busy(M) THEN [M |-> M, call |-> Sleep(cr, "del")] ELSE DelBody(M, c, cr)

DelError(code, errorMessage) ==
  [context |-> "deleting minikube", errorCode |-> code, message |-> errorMessage]

\* bat.on('exit', ...) of del; in factoryReset the removal of the data follows
DelExit(M, c, cr, code, errorMessage) ==
  LET M1 == clear(M)
  IN IF code # 0
       THEN [M |-> M1, call |-> Done(Settle(cr, "failed", DelError(code, errorMessage)))]
       ELSE IF cr.op = "factoryReset" /\ cr.result = "pending"
         THEN [M |-> M1, call |-> [cr EXCEPT !.pc = "rm", !.fn = "rm"]]
         ELSE [M |-> M1, call |-> Done(Settle(cr, "ok", NoErr))]

-----------------------------------------------------------------------------
(* stop *)

\* stop() returned: a stop() call is over, factoryReset goes on to del()
AfterStop(M, c, cr) ==
  IF cr.op = "factoryReset" THEN DelEntry(M, c, cr)
  ELSE [M |-> M, call |-> Done(Settle(cr, "ok", NoErr))]

\* mutant: stop() returns at once in Error, as it does in Stopped
StopBodyIdleInError(M, c, cr) ==
  IF M.internalState \in {STOPPED, ERROR}
    THEN AfterStop(M, c, cr)
    ELSE LET M1 == [M EXCEPT !.currentType = "stop"]
             M2 == SetState(M1, STOPPING, c)
             M3 == Spawn(M2, "stop", c, FALSE, TRUE)
         IN [M |-> M3, call |-> [cr EXCEPT !.pc = "exit", !.fn = "stop"]]

\* stop(): after the wait loop
StopBody(M, c, cr) ==
  IF M.internalState = STOPPED
    THEN AfterStop(M, c, cr)
    ELSE LET M1 == [M EXCEPT !.currentType = "stop"]
             M2 == SetState(M1, STOPPING, c)
             M3 == Spawn(M2, "stop", c, FALSE, TRUE)
         IN [M |-> M3, call |-> [cr EXCEPT !.pc = "exit", !.fn = "stop"]]

\* stop(): while (this.#currentType !== undefined) await sleep(500)
StopWait(M, c, cr) ==
  IF Busy(M) THEN [M |-> M, call |-> Sleep(cr, "stop")] ELSE StopBody(M, c, cr)

\* stop(): if (this.#currentType === 'start') this.#current.kill('SIGINT')
StopEntry(M, c, cr) ==
  StopWait(IF M.currentType = "start" THEN kill(M, M.current) ELSE M, c, cr)

\* mutant: only exit code 0 counts as a successful stop
StopSucceededOnZero(code) == code = 0

\* if (code === 0 || code === undefined || code === null)
StopSucceeded(code) == code = 0 \/ code = NoCode

StopError(code, errorMessage) ==
  [context |-> "stopping minikube", errorCode |-> code, message |-> errorMessage]

\* bat.on('exit', ...) of stop
StopExit(M, c, cr, code, errorMessage) ==
  LET M1 == clear(M)
  IN IF StopSucceeded(code)
       THEN AfterStop(SetState(M1, STOPPED, c), c, cr)
       ELSE [M |-> SetState(M1, ERROR, c),
             call |-> Done(Settle(cr, "failed", StopError(code, errorMessage)))]

-----------------------------------------------------------------------------
(* reset *)

ResetError == [context |-> "resetting minikube", errorCode |-> NoCode, message |-> << >>]

\* exec(...args, { stdio: 'inherit' }): the child is spawned with inherited
\* stdio, so child.stdout is null and child.stdout.on(...) throws inside the
\* promise executor, before any 'exit' handler is attached: the promise is
\* rejected at once and the child runs on unobserved.
Exec(M, c) == Spawn(M, "ssh", c, FALSE, FALSE)

\* mutant: reset() returns at once only in Stopped
ResetBodyUnlessStopped(M, c, cr) ==
  IF M.internalState = STOPPED
    THEN [M |-> M, call |-> Done(Settle(cr, "ok", NoErr))]
    ELSE LET M1 == [M EXCEPT !.currentType = "reset"]
             M2 == SetState(M1, STARTING, c)
             M3 == [M2 EXCEPT !.clients = destroy(@, M2.client)]
             M4 == Exec(M3, c)
             M5 == clear(SetState(M4, ERROR, c))
         IN [M |-> M5,
             call |-> Done(Settle(cr, "failed", ResetError))]

\* reset(): after the wait loop
ResetBody(M, c, cr) ==
  IF M.internalState # STARTED
    THEN [M |-> M, call |-> Done(Settle(cr, "ok", NoErr))]
    ELSE LET M1 == [M EXCEPT !.currentType = "reset"]
             M2 == SetState(M1, STARTING, c)
             M3 == [M2 EXCEPT !.clients = destroy(@, M2.client)]
             M4 == Exec(M3, c)
             \* catch: this.#state = ERROR; throw; finally: this.clear()
             M5 == clear(SetState(M4, ERROR, c))
         IN [M |-> M5,
             call |-> Done(Settle(cr, "failed", ResetError))]

ResetEntry(M, c, cr) ==
  IF Busy(M) THEN [M |-> M, call |-> Sleep(cr, "reset")] ELSE ResetBody(M, c, cr)

-----------------------------------------------------------------------------
(* factoryReset *)

\* if (this.#state !== K8s.State.STOPPED) await this.stop(); await this.del()
FactoryResetEntry(M, c, cr) ==
  IF M.internalState # STOPPED THEN StopEntry(M, c, cr) ELSE DelEntry(M, c, cr)

RmError == [context |-> "rm", errorCode |-> NoCode, message |-> << >>]

-----------------------------------------------------------------------------
(* KubeClient: the forwarding table *)

\* A string is the sequence of its pieces, the empty string is << >>.
\* (namespace, endpoint, port) as forwardPort and cancelForwardPort receive it;
\* an empty namespace stands for the default one
Targets ==
  { << << >>, << "web" >>, 80 >>,
    << << "kube-system" >>, << "dns" >>, 53 >> }

\* `${ port }` for the ports in use here, and for NaN
PortString(port) ==
  CASE port = 80 -> << "80" >>
    [] port = 53 -> << "53" >>
    [] OTHER -> << "NaN" >>

\* ForwardingMap: `${ namespace || 'default' }/${ endpoint }:${ port }`
Key(t) ==
  (IF t[1] = << >> THEN << "default" >> ELSE t[1]) \o << "/" >> \o t[2] \o << ":" >>
    \o PortString(t[3])

Keys == {Key(t) : t \in Targets}

\* ForwardingMap.get / has: this.map.get(key), undefined for a key not in the map
MapGet(map, key) == IF key \in DOMAIN map THEN map[key] ELSE NoServer

\* the services the watch can report, as (metadata.namespace, metadata.name, targetPort)
Watched ==
  { << << "default" >>, << "web" >>, 80 >>,
    << << "kube-system" >>, << "dns" >>, 53 >> }

\* the local ports the system hands out for { port: 0, host: 'localhost' }
Ports == {49152, 49153, 49154}

RequestIds == 1..MaxRequests

IdleRequest ==
  [op |-> "none", target |-> << >>, pc |-> "idle", status |-> "pending",
   port |-> NoPort, error |-> "none", server |-> NoServer, emits |-> 0]

\* The client object, as a value the handlers below transform.
Kube ==
  [servers |-> servers, netServers |-> netServers, services |-> services,
   notified |-> notified, shutdown |-> shutdown, subscribers |-> subscribers]

NoKubeEvent ==
  [type |-> "none", request |-> 0, server |-> NoServer, conn |-> 0, outcome |-> "none"]

KubeInit ==
  /\ servers = [k \in Keys |-> NoServer]
  /\ netServers = << >>
  /\ services = {}
  /\ notified = << >>
  /\ requests = [r \in RequestIds |-> IdleRequest]
  /\ nrequests = 0
  /\ nwatch = 0
  /\ shutdown = FALSE
  /\ subscribers = 1
  /\ conns = << >>
  /\ kevent = NoKubeEvent

\* net.createServer(...): not listening yet; creator is the call that awaits it,
\* destroyed records that destroy() has closed it
createServer(K, key, r) ==
  [K EXCEPT !.netServers = Append(@, [key |-> key, state |-> "binding", port |-> NoPort,
                                      closing |-> FALSE, creator |-> r,
                                      destroyed |-> FALSE])]

\* server.address(): null before 'listening' and after close()
address(K, s) ==
  IF K.netServers[s].state = "listening" THEN K.netServers[s].port ELSE NoPort

close(K, s) == [K EXCEPT !.netServers[s] = closeServer(@)]

\* listServices(): address !== undefined ? address.port : undefined reads
\* .port of null for a registered server that is not listening
listServicesThrows(K) ==
  \E e \in K.services :
    /\ MapGet(K.servers, Key(e)) # NoServer
    /\ address(K, MapGet(K.servers, Key(e))) = NoPort

\* listServices(): each cached service port with its listenPort
listServices(K) ==
  [e \in K.services |->
     IF MapGet(K.servers, Key(e)) = NoServer THEN NoPort
     ELSE address(K, MapGet(K.servers, Key(e)))]

\* this.emit('service-changed', this.listServices()) on behalf of call by
emitServiceChanged(K, by) ==
  IF listServicesThrows(K)
    THEN [K |-> K, threw |-> TRUE]
    ELSE [K |-> [K EXCEPT !.notified = Append(@, [by |-> by, list |-> listServices(K),
                                                  heard |-> K.subscribers])],
          threw |-> FALSE]

Resolve(rq, port) == [rq EXCEPT !.pc = "done", !.status = "ok", !.port = port]

Reject(rq, error) == [rq EXCEPT !.pc = "done", !.status = "failed", !.error = error]

\* createForwardingServer, up to the await: nothing to do when the triple is
\* registered, else a new server is registered and starts to bind
createForwardingServer(K, r, key) ==
  IF K.servers[key] # NoServer
    THEN [K |-> K, server |-> NoServer]
    ELSE LET s == Len(K.netServers) + 1
         IN [K |-> [createServer(K, key, r) EXCEPT !.servers[key] = s], server |-> s]

\* forwardPort, after createForwardingServer returned
forwardPortResult(K, rq) ==
  LET server == K.servers[Key(rq.target)]
  IN IF server = NoServer THEN Resolve(rq, NoPort)
     ELSE IF address(K, server) = NoPort THEN Reject(rq, "TypeError")
     ELSE Resolve(rq, address(K, server))

\* forwardPort, as far as it runs in the turn of the call
forwardPort(K, r, rq) ==
  LET made == createForwardingServer(K, r, Key(rq.target))
  IN IF made.server = NoServer
       THEN [K |-> made.K, rq |-> forwardPortResult(made.K, rq)]
       ELSE [K |-> made.K, rq |-> [rq EXCEPT !.pc = "binding", !.server = made.server]]

\* createForwardingServer after 'listening', then the rest of forwardPort
afterListening(K, r, rq) ==
  LET s == rq.server
      K1 == IF K.servers[K.netServers[s].key] # s THEN close(K, s) ELSE K
      e == emitServiceChanged(K1, r)
  IN IF e.threw
       THEN [K |-> K1, rq |-> Reject(rq, "TypeError")]
       ELSE [K |-> e.K, rq |-> forwardPortResult(e.K, [rq EXCEPT !.emits = @ + 1])]

\* cancelForwardPort, as far as it runs in the turn of the call
cancelForwardPort(K, r, rq) ==
  LET key == Key(rq.target)
      server == K.servers[key]
      K1 == [K EXCEPT !.servers[key] = NoServer]
  IN IF server = NoServer
       THEN [K |-> K1, rq |-> Resolve(rq, NoPort)]
       ELSE [K |-> close(K1, server), rq |-> [rq EXCEPT !.pc = "closing", !.server = server]]

\* cancelForwardPort after the server's close callback
afterClose(K, r, rq) ==
  LET e == emitServiceChanged(K, r)
  IN IF e.threw
       THEN [K |-> K, rq |-> Reject(rq, "TypeError")]
       ELSE [K |-> e.K, rq |-> Resolve([rq EXCEPT !.emits = @ + 1], NoPort)]

\* the calls that await server s: its creator, while binding, and a cancel
Binding(rqs, s) == {r \in DOMAIN rqs : rqs[r].pc = "binding" /\ rqs[r].server = s}

Closing(rqs, s) == {r \in DOMAIN rqs : rqs[r].pc = "closing" /\ rqs[r].server = s}

\* 'close' of server s: once('close') rejects the creator that still awaits
\* the listener, and the close callback resumes the cancel that awaits it
onClose(K, rqs, s) ==
  LET rqs1 == [r \in DOMAIN rqs |->
                 IF r \in Binding(rqs, s) THEN Reject(rqs[r], "Server closed") ELSE rqs[r]]
  IN IF Closing(rqs, s) = {}
       THEN [K |-> K, requests |-> rqs1]
       ELSE LET r == CHOOSE x \in Closing(rqs, s) : TRUE
                done == afterClose(K, r, rqs[r])
            IN [K |-> done.K, requests |-> [rqs1 EXCEPT ![r] = done.rq]]

\* 'listening' of server s on local port p
onListening(K, rqs, s, p) ==
  LET K1 == [K EXCEPT !.netServers[s].state = "listening", !.netServers[s].port = p]
  IN IF Binding(rqs, s) = {}
       THEN [K |-> K1, requests |-> rqs]
       ELSE LET r == K.netServers[s].creator
                done == afterListening(K1, r, rqs[r])
            IN [K |-> done.K, requests |-> [rqs EXCEPT ![r] = done.rq]]

\* 'error' of server s while it binds: it will not listen; the creator is rejected
onError(K, rqs, s) ==
  [K |-> [K EXCEPT !.netServers[s].state = "closed"],
   requests |-> [r \in DOMAIN rqs |->
                   IF r \in Binding(rqs, s) THEN Reject(rqs[r], "listen error") ELSE rqs[r]]]

\* the watch reports a service added or gone: the cache changes and the
\* wrapped callback emits 'service-changed' with the new list
onWatch(K, e) ==
  LET K1 == [K EXCEPT !.services = IF e \in @ THEN @ \ {e} ELSE @ \cup {e}]
  IN emitServiceChanged(K1, 0).K

\* ForwardingMap.delete: this.map.delete(key)
MapDelete(map, key) == IF key \in DOMAIN map THEN [map EXCEPT ![key] = NoServer] ELSE map

\* /^([^/]*)\/([^:]+):(\d+)$/.exec(key): the whole key, then its three groups
Match(key) == << key, << key[1] >>, << key[3] >>, << key[5] >> >>

\* parseInt, on the strings at hand
ParseInt(str) ==
  IF str = << "80" >> THEN 80 ELSE IF str = << "53" >> THEN 53 ELSE NaN

\* ForwardingMap[Symbol.iterator]: const [namespace, endpoint, port] = match takes
\* the match from its first element, the whole key; it yields
\* [namespace, endpoint, parseInt(port), server]
Entries(map) ==
  { << Match(k)[1], Match(k)[2], ParseInt(Match(k)[3]), map[k] >> :
      k \in {x \in DOMAIN map : map[x] # NoServer} }

\* KubeClient.destroy()
KubeDestroy(K) ==
  LET yielded == Entries(K.servers)
      gone == {Key(<< e[1], e[2], e[3] >>) : e \in yielded}
      closed == {e[4] : e \in yielded}
  IN [K EXCEPT !.shutdown = TRUE,
               !.servers = [k \in DOMAIN @ |-> IF k \in gone THEN NoServer ELSE @[k]],
               !.netServers = [s \in DOMAIN @ |->
                                 IF s \in closed
                                   THEN [closeServer(@[s]) EXCEPT !.destroyed = TRUE]
                                   ELSE @[s]],
               !.subscribers = 0]

-----------------------------------------------------------------------------
(* KubeClient: accepted connections *)

ConnIds == 1..MaxConnections

\* the handler of a connection returned: the socket was relayed or destroyed,
\* or the handler threw and left the socket as it was
Finish(cn, pod, outcome) == [cn EXCEPT !.pc = "done", !.pod = pod, !.outcome = outcome]

\* getActivePod returned null: if (!pod || ...) socket.destroy(...)
PodNotFound(cn) == Finish(cn, "null", "destroyed")

\* getActivePod: while (!this.shutdown) { endpoints = await listNamespacedEndpoints(...)
getActivePod(K, cn) ==
  IF K.shutdown THEN PodNotFound(cn) ELSE [cn EXCEPT !.pc = "listing"]

\* mutant: getActivePod gives up when the first answer names no pod
onEndpointsOnce(K, cn, found) ==
  CASE found = "error" -> Finish(cn, "threw", "abandoned")
    [] found = "ref" -> [cn EXCEPT !.pc = "reading"]
    [] OTHER -> PodNotFound(cn)

\* getActivePod: the endpoints arrived; target is the first targetRef, if any
onEndpoints(K, cn, found) ==
  CASE found = "error" -> Finish(cn, "threw", "abandoned")
    [] found = "none" /\ ~K.shutdown -> [cn EXCEPT !.pc = "sleeping"]
    [] found = "ref" -> [cn EXCEPT !.pc = "reading"]
    [] OTHER -> PodNotFound(cn)

\* the connection handler after getActivePod returned what readNamespacedPod gave
onPod(K, cn, body) ==
  CASE body = "error" -> Finish(cn, "threw", "abandoned")
    [] body = "undefined" -> Finish(cn, "undefined", "destroyed")
    [] MapGet(K.servers, cn.key) = NoServer -> Finish(cn, "pod", "destroyed")
    [] body = "no metadata" -> Finish(cn, "pod", "abandoned")
    [] OTHER -> Finish(cn, "pod", "relayed")

KubeCommit(K, rqs) ==
  /\ servers' = K.servers
  /\ netServers' = K.netServers
  /\ services' = K.services
  /\ notified' = K.notified
  /\ shutdown' = K.shutdown
  /\ subscribers' = K.subscribers
  /\ requests' = rqs
  /\ UNCHANGED conns
  /\ UNCHANGED << cvars, rvars >>

\* a step of a connection handler: the client itself is only read
ConnCommit(c, cn) ==
  /\ conns' = [conns EXCEPT ![c] = cn]
  /\ UNCHANGED << servers, netServers, services, notified, requests, nrequests, nwatch,
                  shutdown, subscribers >>
  /\ UNCHANGED << cvars, rvars >>

NewRequest(op, t) == [IdleRequest EXCEPT !.op = op, !.target = t]

CallForwardPort ==
  /\ nrequests < MaxRequests
  /\ \E t \in Targets :
       LET r == nrequests + 1
           out == forwardPort(Kube, r, NewRequest("forwardPort", t))
       IN /\ kevent' = [NoKubeEvent EXCEPT !.type = "forwardPort", !.request = r]
          /\ KubeCommit(out.K, [requests EXCEPT ![r] = out.rq])
  /\ nrequests' = nrequests + 1
  /\ UNCHANGED nwatch

CallCancelForwardPort ==
  /\ nrequests < MaxRequests
  /\ \E t \in Targets :
       LET r == nrequests + 1
           out == cancelForwardPort(Kube, r, NewRequest("cancelForwardPort", t))
       IN /\ kevent' = [NoKubeEvent EXCEPT !.type = "cancelForwardPort", !.request = r]
          /\ KubeCommit(out.K, [requests EXCEPT ![r] = out.rq])
  /\ nrequests' = nrequests + 1
  /\ UNCHANGED nwatch

\* the ports other listening servers hold
PortsInUse == {netServers[s].port : s \in {x \in 1..Len(netServers) : netServers[x].state = "listening"}}

\* the port the system hands out: one that is not in use; the client never
\* looks at its number, so the lowest one stands for any of them
FreePort == {p \in Ports \ PortsInUse : \A q \in Ports \ PortsInUse : p <= q}

Listening(s) ==
  /\ netServers[s].state = "binding"
  /\ ~netServers[s].closing
  /\ \E p \in FreePort :
       LET out == onListening(Kube, requests, s, p)
       IN KubeCommit(out.K, out.requests)
  /\ kevent' = [NoKubeEvent EXCEPT !.type = "listening", !.server = s]
  /\ UNCHANGED << nrequests, nwatch >>

ListenError(s) ==
  /\ netServers[s].state = "binding"
  /\ ~netServers[s].closing
  /\ LET out == onError(Kube, requests, s)
     IN KubeCommit(out.K, out.requests)
  /\ kevent' = [NoKubeEvent EXCEPT !.type = "error", !.server = s]
  /\ UNCHANGED << nrequests, nwatch >>

Closed(s) ==
  /\ netServers[s].closing
  /\ LET out == onClose([Kube EXCEPT !.netServers[s].closing = FALSE], requests, s)
     IN KubeCommit(out.K, out.requests)
  /\ kevent' = [NoKubeEvent EXCEPT !.type = "close", !.server = s]
  /\ UNCHANGED << nrequests, nwatch >>

WatchEvent ==
  /\ nwatch < MaxWatch
  /\ \E e \in Watched : KubeCommit(onWatch(Kube, e), requests)
  /\ nwatch' = nwatch + 1
  /\ kevent' = [NoKubeEvent EXCEPT !.type = "watch"]
  /\ UNCHANGED nrequests

\* the owner destroys the client
Destroy ==
  /\ ~shutdown
  /\ KubeCommit(KubeDestroy(Kube), requests)
  /\ kevent' = [NoKubeEvent EXCEPT !.type = "destroy"]
  /\ UNCHANGED << nrequests, nwatch >>

\* a listening server accepts a connection and its handler starts
Accept(s) ==
  /\ Len(conns) < MaxConnections
  /\ netServers[s].state = "listening"
  /\ conns' = Append(conns, getActivePod(Kube, [server |-> s, key |-> netServers[s].key,
                                                pc |-> "new", pod |-> "pending",
                                                outcome |-> "pending"]))
  /\ kevent' = [NoKubeEvent EXCEPT !.type = "connection", !.server = s,
                                   !.conn = Len(conns) + 1]
  /\ UNCHANGED << servers, netServers, services, notified, requests, nrequests, nwatch,
                  shutdown, subscribers >>
  /\ UNCHANGED << cvars, rvars >>

\* listNamespacedEndpoints answered
Endpoints(c) ==
  /\ c \in DOMAIN conns
  /\ conns[c].pc = "listing"
  /\ \E found \in {"none", "ref", "unusable ref", "error"} :
       /\ ConnCommit(c, onEndpoints(Kube, conns[c], found))
       /\ kevent' = [NoKubeEvent EXCEPT !.type = "endpoints", !.conn = c, !.outcome = found]

\* the one second of getActivePod's retry is over: the loop tests shutdown again
Retry(c) ==
  /\ c \in DOMAIN conns
  /\ conns[c].pc = "sleeping"
  /\ ConnCommit(c, getActivePod(Kube, conns[c]))
  /\ kevent' = [NoKubeEvent EXCEPT !.type = "retry", !.conn = c]

\* readNamespacedPod answered
PodRead(c) ==
  /\ c \in DOMAIN conns
  /\ conns[c].pc = "reading"
  /\ \E body \in {"pod", "no metadata", "undefined", "error"} :
       /\ ConnCommit(c, onPod(Kube, conns[c], body))
       /\ kevent' = [NoKubeEvent EXCEPT !.type = "pod", !.conn = c, !.outcome = body]

ClientNext ==
  \/ CallForwardPort
  \/ CallCancelForwardPort
  \/ \E s \in 1..Len(netServers) : Listening(s)
  \/ \E s \in 1..Len(netServers) : ListenError(s)
  \/ \E s \in 1..Len(netServers) : Closed(s)
  \/ WatchEvent
  \/ Destroy
  \/ \E s \in 1..Len(netServers) : Accept(s)
  \/ \E c \in 1..Len(conns) : Endpoints(c)
  \/ \E c \in 1..Len(conns) : Retry(c)
  \/ \E c \in 1..Len(conns) : PodRead(c)

-----------------------------------------------------------------------------
(* the restart reasons: #minikubeConfig, requiresRestartReasons *)

States == {STOPPED, STARTING, STARTED, STOPPING, ERROR}

RECURSIVE GCD(_, _)
GCD(a, b) == IF b = 0 THEN a ELSE GCD(b, a % b)

\* the JavaScript number n / d, as a fraction in lowest terms
Number(n, d) == << n \div GCD(n, d), d \div GCD(n, d) >>

\* settings.kubernetes, as far as requiresRestartReasons reads it
Settings == [numberCPUs : {2, 4}, memoryInGB : {2, 4}]

\* what fs.readFile and JSON.parse make of config.json: the stored
\* configuration (Memory in MiB), no such file, or another error
NoFile == [error |-> "ENOENT", CPUs |-> 2, Memory |-> 2048, Bootstrapper |-> "k3s"]
Unreadable == [NoFile EXCEPT !.error = "EACCES"]
ConfigFiles ==
  [error : {"none"}, CPUs : {2, 4}, Memory : {2048, 3000, 4096},
   Bootstrapper : {"k3s", "kubeadm"}] \cup {NoFile, Unreadable}

ReasonKeys == {"cpu", "memory", "bootstrapper"}

\* {}
NoReasons == [k \in {} |-> << >>]

IdleReasons == [pc |-> "idle", status |-> "none", value |-> NoReasons]

SettingsInit ==
  /\ cfg = [numberCPUs |-> 2, memoryInGB |-> 2]
  /\ configFile = NoFile
  /\ reasons = IdleReasons

\* mutant: cmp leaves a key out when the values match
requiresRestartReasonsOmitting(config, settings) ==
  IF config.error # "none"
    THEN NoReasons
    ELSE LET actual == [k \in ReasonKeys |->
                          CASE k = "cpu" -> Number(config.CPUs, 1)
                            [] k = "memory" -> Number(config.Memory, 1024)
                            [] OTHER -> config.Bootstrapper]
             desired == [k \in ReasonKeys |->
                           CASE k = "cpu" -> Number(settings.numberCPUs, 1)
                             [] k = "memory" -> Number(settings.memoryInGB, 1)
                             [] OTHER -> "k3s"]
         IN [k \in {x \in ReasonKeys : actual[x] # desired[x]} |->
               << actual[k], desired[k] >>]

\* cmp: actual === desired ? [] : [actual, desired]
cmp(actual, desired) == IF actual = desired THEN << >> ELSE << actual, desired >>

\* requiresRestartReasons once #minikubeConfig gave config (error "ENOENT"
\* stands for null)
requiresRestartReasons(config, settings) ==
  IF config.error # "none"
    THEN NoReasons
    ELSE [k \in ReasonKeys |->
            CASE k = "cpu" -> cmp(Number(config.CPUs, 1), Number(settings.numberCPUs, 1))
              [] k = "memory" ->
                   cmp(Number(config.Memory, 1024), Number(settings.memoryInGB, 1))
              [] OTHER -> cmp(config.Bootstrapper, "k3s")]

\* requiresRestartReasons() is called: #minikubeConfig is null at once unless
\* the state is STARTED, and otherwise reads the file
CallRequiresRestartReasons ==
  /\ reasons.pc # "reading"
  /\ reasons' = IF internalState # STARTED
                  THEN [pc |-> "done", status |-> "ok",
                        value |-> requiresRestartReasons(NoFile, cfg)]
                  ELSE [pc |-> "reading", status |-> "none", value |-> NoReasons]
  /\ UNCHANGED << cvars, kvars, cfg, configFile >>

\* the read ends: an error other than ENOENT is thrown on
ConfigRead ==
  /\ reasons.pc = "reading"
  /\ reasons' = IF configFile.error \in {"none", "ENOENT"}
                  THEN [pc |-> "done", status |-> "ok",
                        value |-> requiresRestartReasons(configFile, cfg)]
                  ELSE [pc |-> "done", status |-> "failed", value |-> NoReasons]
  /\ UNCHANGED << cvars, kvars, cfg, configFile >>

\* 'settings-update': #onSettingsChanged
SettingsUpdate ==
  /\ \E settings \in Settings : cfg' = settings
  /\ cfg' # cfg
  /\ UNCHANGED << cvars, kvars, configFile, reasons >>

ConfigNext ==
  \/ CallRequiresRestartReasons
  \/ ConfigRead
  \/ SettingsUpdate

-----------------------------------------------------------------------------
(* the event loop *)

Commit(r, c) ==
  /\ internalState' = r.M.internalState
  /\ client' = r.M.client
  /\ currentType' = r.M.currentType
  /\ current' = r.M.current
  /\ clients' = r.M.clients
  /\ procs' = r.M.procs
  /\ emitted' = r.M.emitted
  /\ calls' = [calls EXCEPT ![c] = r.call]
  /\ UNCHANGED << kvars, rvars >>

\* the fields of a new Minikube other than its state, and no call issued
MinikubeInit ==
  /\ client = NoClient
  /\ currentType = "undefined"
  /\ current = NoProc
  /\ clients = << >>
  /\ procs = << >>
  /\ emitted = << >>
  /\ calls = [c \in CallIds |-> IdleCall]
  /\ ncalls = 0
  /\ event = NoEvent

Init ==
  /\ internalState = STOPPED
  /\ MinikubeInit
  /\ KubeInit
  /\ SettingsInit

NewCall(op) == [IdleCall EXCEPT !.op = op]

CallEvent(c, fn) == [NoEvent EXCEPT !.type = "call", !.call = c, !.fn = fn]

CallStart ==
  /\ ncalls < MaxCalls
  /\ ncalls' = ncalls + 1
  /\ event' = CallEvent(ncalls + 1, "start")
  /\ Commit(StartEntry(This, ncalls + 1, NewCall("start")), ncalls + 1)

CallStop ==
  /\ ncalls < MaxCalls
  /\ ncalls' = ncalls + 1
  /\ event' = CallEvent(ncalls + 1, "stop")
  /\ Commit(StopEntry(This, ncalls + 1, NewCall("stop")), ncalls + 1)

CallDel ==
  /\ ncalls < MaxCalls
  /\ ncalls' = ncalls + 1
  /\ event' = CallEvent(ncalls + 1, "del")
  /\ Commit(DelEntry(This, ncalls + 1, NewCall("del")), ncalls + 1)

CallReset ==
  /\ ncalls < MaxCalls
  /\ ncalls' = ncalls + 1
  /\ event' = CallEvent(ncalls + 1, "reset")
  /\ Commit(ResetEntry(This, ncalls + 1, NewCall("reset")), ncalls + 1)

CallFactoryReset ==
  /\ ncalls < MaxCalls
  /\ ncalls' = ncalls + 1
  /\ event' = CallEvent(ncalls + 1, "factoryReset")
  /\ Commit(FactoryResetEntry(This, ncalls + 1, NewCall("factoryReset")), ncalls + 1)

\* a sleep(500) timer fires and the wait loop tests its condition again
Resume(M, c, cr) ==
  CASE cr.fn = "start" -> StartEntry(M, c, cr)
    [] cr.fn = "stop" -> StopWait(M, c, cr)
    [] cr.fn = "del" -> DelEntry(M, c, cr)
    [] OTHER -> ResetEntry(M, c, cr)

Wake(c) ==
  /\ calls[c].pc = "sleep"
  /\ event' = [NoEvent EXCEPT !.type = "wake", !.call = c, !.fn = calls[c].fn]
  /\ Commit(Resume(This, c, calls[c]), c)
  /\ UNCHANGED ncalls

\* the 'exit' event of a subprocess
OnExit(M, p, code, sig, permsMsg, errorMessage) ==
  LET c == M.procs[p].owner
      cr == calls[c]
      kind == M.procs[p].kind
      M1 == Exited(M, p)
  IN CASE kind = "start" ->
            StartExit(M1, c, cr, M.procs[p].nested, code, sig, permsMsg, errorMessage)
       [] kind = "stop" -> StopExit(M1, c, cr, code, errorMessage)
       [] OTHER -> DelExit(M1, c, cr, code, errorMessage)

\* what a child can have done when it exits; only start reads stdout
ExitInputs(kind) ==
  { e \in [code : {0, 1, PermsCode, NoCode}, sig : {"null", "SIGINT", "SIGTERM"},
           permsMsg : BOOLEAN, stderr : Stderrs] :
      /\ (e.code = NoCode) # (e.sig = "null")
      /\ e.permsMsg => kind = "start" }

\* a child nobody attached an 'exit' handler to ends unobserved
Exit(p) ==
  /\ procs[p].alive
  /\ procs[p].handled
  /\ \E e \in ExitInputs(procs[p].kind) :
       /\ event' = [NoEvent EXCEPT !.type = "exit", !.call = procs[p].owner,
                                   !.fn = calls[procs[p].owner].fn, !.proc = p,
                                   !.code = e.code, !.sig = e.sig,
                                   !.permsMsg = e.permsMsg, !.stderr = e.stderr]
       /\ Commit(OnExit(This, p, e.code, e.sig, e.permsMsg, e.stderr), procs[p].owner)
  /\ UNCHANGED ncalls

Sudo(c) ==
  /\ calls[c].pc = "sudo"
  /\ \E granted \in BOOLEAN :
       /\ event' = [NoEvent EXCEPT !.type = "sudo", !.call = c, !.fn = "start", !.ok = granted]
       /\ Commit(StartAgain(This, c, calls[c], granted), c)
  /\ UNCHANGED ncalls

\* factoryReset: the recursive removal of paths.data() finished
Rm(c) ==
  /\ calls[c].pc = "rm"
  /\ \E ok \in BOOLEAN :
       /\ event' = [NoEvent EXCEPT !.type = "rm", !.call = c, !.fn = "rm", !.ok = ok]
       /\ Commit([M |-> This,
                  call |-> Done(IF ok THEN Settle(calls[c], "ok", NoErr)
                                ELSE Settle(calls[c], "failed", RmError))], c)
  /\ UNCHANGED ncalls

Next ==
  \/ CallStart
  \/ CallStop
  \/ CallDel
  \/ CallReset
  \/ CallFactoryReset
  \/ \E c \in CallIds : Wake(c)
  \/ \E p \in 1..Len(procs) : Exit(p)
  \/ \E c \in CallIds : Sudo(c)
  \/ \E c \in CallIds : Rm(c)

Spec == Init /\ [][Next]_vars

\* Minikube.forwardPort: this.#client?.forwardPort(...); createForwardingServer
\* registers a new listener unless the table has an entry, whether or not the
\* client is shut down
ForwardPort ==
  /\ client # NoClient
  /\ ~clients[client].entry
  /\ clients' = [clients EXCEPT ![client].entry = TRUE,
                                ![client].server = [state |-> "binding", closing |-> FALSE]]
  /\ event' = [NoEvent EXCEPT !.type = "forwardPort"]
  /\ UNCHANGED << internalState, client, currentType, current, procs, emitted, calls,
                  ncalls, kvars, rvars >>

\* 'listening' of the listener of client k
ServerListening(k) ==
  /\ clients[k].server.state = "binding"
  /\ ~clients[k].server.closing
  /\ clients' = [clients EXCEPT ![k].server.state = "listening"]
  /\ event' = [NoEvent EXCEPT !.type = "listening"]
  /\ UNCHANGED << internalState, client, currentType, current, procs, emitted, calls,
                  ncalls, kvars, rvars >>

\* 'close' of the listener of client k
ServerClosed(k) ==
  /\ clients[k].server.closing
  /\ clients' = [clients EXCEPT ![k].server.closing = FALSE]
  /\ event' = [NoEvent EXCEPT !.type = "close"]
  /\ UNCHANGED << internalState, client, currentType, current, procs, emitted, calls,
                  ncalls, kvars, rvars >>

ForwardNext ==
  \/ ForwardPort
  \/ \E k \in 1..Len(clients) : ServerListening(k)
  \/ \E k \in 1..Len(clients) : ServerClosed(k)

\* the controller with forwards made through it
ForwardSpec == Init /\ [][Next \/ ForwardNext]_vars

\* a call spawns at most two children: stop and delete, or start and its
\* nested start
ProcIds == 1..(2 * MaxCalls)

\* every subprocess exits and every sudo prompt is answered
LiveSpec ==
  /\ Spec
  /\ \A p \in ProcIds : WF_vars(p \in DOMAIN procs /\ Exit(p))
  /\ \A c \in CallIds : WF_vars(Sudo(c))

\* one client on its own: the controller does not move
ClientSpec == Init /\ [][ClientNext]_vars

\* requiresRestartReasons on its own, for every state, stored configuration
\* and settings
ConfigInit ==
  /\ internalState \in States
  /\ MinikubeInit
  /\ KubeInit
  /\ cfg \in Settings
  /\ configFile \in ConfigFiles
  /\ reasons = IdleReasons

ConfigSpec == ConfigInit /\ [][ConfigNext]_vars

\* the API server answers every request and every timer fires
ClientLiveSpec ==
  /\ ClientSpec
  /\ \A c \in ConnIds :
       WF_vars(Endpoints(c)) /\ WF_vars(Retry(c)) /\ WF_vars(PodRead(c))

-----------------------------------------------------------------------------
(* What the checks below read off a step *)

\* the calls between taking the operation lock and clear()
Holders == {c \in CallIds : calls[c].pc \in {"exit", "sudo"}}

\* the controller did nothing a subscriber, the lock or a child could show
Untouched ==
  /\ internalState' = internalState
  /\ emitted' = emitted
  /\ Len(procs') = Len(procs)
  /\ client' = client
  /\ clients' = clients
  /\ currentType' = currentType
  /\ current' = current

\* the step handled the 'exit' of a child of the given kind
ExitOf(kind) == event'.type = "exit" /\ procs[event'.proc].kind = kind

\* the step ran stop()'s wait loop for the call event'.call
StopChecked ==
  \/ event'.type = "call" /\ event'.fn = "stop"
  \/ event'.type = "call" /\ event'.fn = "factoryReset" /\ internalState # STOPPED
  \/ event'.type = "wake" /\ event'.fn = "stop"

\* the states notified on behalf of call c, in order
StatesBy(log, c) ==
  LET mine == SelectSeq(log, LAMBDA e : e.by = c)
  IN [i \in 1..Len(mine) |-> mine[i].state]

-----------------------------------------------------------------------------
(* C1 *)

\* C1: at most one of start/stop/del/reset is current at any instant: the
\* lock names the one call that holds it, and while it is held a step of any
\* other call changes no state, notifies nobody and spawns nothing.  A nested
\* start is the same call.
C1_OneCurrent ==
  /\ [](/\ Cardinality(Holders) <= 1
        /\ (Holders = {}) <=> (currentType = "undefined")
        /\ \A c \in Holders : currentType = calls[c].fn)
  /\ [][currentType # "undefined" =>
          \A c \in CallIds \ Holders : calls'[c] # calls[c] => Untouched]_vars

\* a call waits asleep while another one holds the lock
C1_Witness ==
  \E c \in Holders : \E d \in CallIds \ Holders : calls[d].pc = "sleep"

-----------------------------------------------------------------------------
(* C2 *)

\* C2: a top-level start() that takes the lock in a state other than Stopped
\* fails, and no 'minikube start' child is spawned for it.
C2_RejectedStartSpawnsNothing ==
  \A c \in CallIds :
    (calls[c].op = "start" /\ calls[c].found \notin {NoCode, STOPPED}) =>
      /\ calls[c].result = "failed"
      /\ \A p \in 1..Len(procs) : ~(procs[p].owner = c /\ procs[p].kind = "start")

-----------------------------------------------------------------------------
(* C3 *)

\* C3: a del() that takes the lock in a state other than Stopped fails, and no
\* 'minikube delete' child is spawned for it.
C3_RejectedDelSpawnsNothing ==
  \A c \in CallIds :
    (calls[c].op \in {"del", "factoryReset"} /\ calls[c].found \notin {NoCode, STOPPED}) =>
      /\ calls[c].result = "failed"
      /\ \A p \in 1..Len(procs) : ~(procs[p].owner = c /\ procs[p].kind = "delete")

-----------------------------------------------------------------------------
(* C4 *)

\* C4: whenever the state is Stopped, Stopping or Error the controller holds
\* no client, and every client it held when such a state was notified has
\* been destroyed.
C4_NoClientWhenDown ==
  /\ internalState \in {STOPPED, STOPPING, ERROR} => client = NoClient
  /\ \A i \in 1..Len(emitted) :
       (emitted[i].state \in {STOPPED, STOPPING, ERROR} /\ emitted[i].client # NoClient) =>
         clients[emitted[i].client].shutdown

\* the controller has just entered Stopping with a client in hand
C4_Witness ==
  /\ internalState = STOPPING
  /\ Len(emitted) > 0
  /\ emitted[Len(emitted)].state = STOPPING
  /\ emitted[Len(emitted)].live

-----------------------------------------------------------------------------
(* C5 *)

\* C5: whenever no operation is current, the controller holds a live client
\* if and only if the state is Started.
C5_ClientIffStarted ==
  ~Busy(This) => (IsLive(This, client) <=> internalState = STARTED)

-----------------------------------------------------------------------------
(* C6 *)

\* the step handled exit code 0 of the child of a start() that found Stopped
StartedCleanly ==
  /\ ExitOf("start")
  /\ ~procs[event'.proc].nested
  /\ event'.code = 0
  /\ calls[event'.call].found = STOPPED

\* C6 as claimed: such a start() notifies Starting, then Started, and each once.
C6_NotifiedOnce ==
  [][StartedCleanly => StatesBy(emitted', event'.call) = << STARTING, STARTED >>]_vars

\* C6 as amended: such a start() notifies Starting, then Started, then Started
\* again (the exit handler and the code after the promise both set it), with
\* no notification of any other call in between.
C6_NotifiedInOrder ==
  [][StartedCleanly =>
       /\ StatesBy(emitted', event'.call) = << STARTING, STARTED, STARTED >>
       /\ Len(emitted') >= 3
       /\ \A i \in (Len(emitted') - 2)..Len(emitted') : emitted'[i].by = event'.call]_vars

\* a start() from Stopped has ended in Started with its client
C6_Witness ==
  /\ event.type = "exit"
  /\ event.code = 0
  /\ procs[event.proc].kind = "start"
  /\ ~procs[event.proc].nested
  /\ calls[event.call].found = STOPPED
  /\ calls[event.call].result = "ok"
  /\ internalState = STARTED

-----------------------------------------------------------------------------
(* C7 *)

\* C7: when the start child exits with a non-zero code, without the sudo
\* condition and with a stderr the downgrade pattern does not match, the state
\* becomes Error and start() fails with that code and with stderr unchanged.
C7_StartFailure ==
  [][(/\ ExitOf("start")
      /\ event'.code \notin {0, NoCode}
      /\ ~NeedsSudo(event'.code, event'.permsMsg, procs[event'.proc].nested)
      /\ ~Matches(event'.stderr)) =>
       /\ internalState' = ERROR
       /\ calls'[event'.call].result = "failed"
       /\ calls'[event'.call].err.errorCode = event'.code
       /\ calls'[event'.call].err.message = event'.stderr]_vars

-----------------------------------------------------------------------------
(* C8 *)

\* C8: when the start child ends by SIGINT, start() completes without error,
\* the state becomes Stopped, no client is created and the lock is released.
C8_Interrupted ==
  [][(ExitOf("start") /\ event'.sig = "SIGINT") =>
       /\ internalState' = STOPPED
       /\ calls'[event'.call].result = "ok"
       /\ Len(clients') = Len(clients)
       /\ client' = NoClient
       /\ currentType' = "undefined"]_vars

-----------------------------------------------------------------------------
(* C9 *)

\* C9: a stop() issued while a start is current interrupts the start's child
\* and goes to sleep; while the lock is held its timer changes nothing; and a
\* stop() that finds the lock free and the state Stopped returns without a
\* child, a notification or the lock.
C9_StopDuringStart ==
  [][/\ (event'.type = "call" /\ StopChecked /\ currentType = "start") =>
          /\ procs[current].alive => procs'[current].signalled
          /\ calls'[event'.call].pc = "sleep"
          /\ Untouched
     /\ (event'.type = "wake" /\ StopChecked /\ currentType # "undefined") =>
          /\ calls'[event'.call].pc = "sleep"
          /\ procs' = procs
          /\ Untouched
     /\ (StopChecked /\ calls'[event'.call].op = "stop"
           /\ currentType = "undefined" /\ internalState = STOPPED) =>
          /\ calls'[event'.call].pc = "done"
          /\ calls'[event'.call].result = "ok"
          /\ procs' = procs
          /\ Untouched]_vars

\* a stop() interrupted a start, slept, and woke to find the cluster stopped
C9_Witness ==
  /\ event.type = "wake"
  /\ event.fn = "stop"
  /\ calls[event.call].op = "stop"
  /\ calls[event.call].result = "ok"
  /\ internalState = STOPPED
  /\ \E p \in 1..Len(procs) : procs[p].kind = "start" /\ procs[p].signalled
  /\ \A p \in 1..Len(procs) : procs[p].kind # "stop"

-----------------------------------------------------------------------------
(* C10 *)

\* C10: a stop() that finds the lock free and the state not Stopped moves to
\* Stopping and spawns 'minikube stop'; the child's exit moves the state to
\* Stopped for code 0 or no code and to Error otherwise, failing with the
\* code and stderr; either way stop no longer holds the lock.
C10_Stop ==
  [][/\ (StopChecked /\ currentType = "undefined" /\ internalState # STOPPED) =>
          /\ internalState' = STOPPING
          /\ currentType' = "stop"
          /\ Len(procs') = Len(procs) + 1
          /\ procs'[Len(procs')].kind = "stop"
          /\ current' = Len(procs')
     /\ ExitOf("stop") =>
          /\ currentType' # "stop"
          /\ calls[event'.call].op = "stop" => currentType' = "undefined"
          /\ IF event'.code \in {0, NoCode}
               THEN /\ internalState' = STOPPED
                    /\ calls[event'.call].op = "stop" => calls'[event'.call].result = "ok"
               ELSE /\ internalState' = ERROR
                    /\ currentType' = "undefined"
                    /\ calls'[event'.call].result = "failed"
                    /\ calls'[event'.call].err.errorCode = event'.code
                    /\ calls'[event'.call].err.message = event'.stderr]_vars

\* a stop child ended by a signal, with no exit code, and the state is Stopped
C10_Witness ==
  /\ event.type = "exit"
  /\ procs[event.proc].kind = "stop"
  /\ event.code = NoCode
  /\ internalState = STOPPED
  /\ currentType = "undefined"
  /\ calls[event.call].result = "ok"

-----------------------------------------------------------------------------
(* C11 *)

\* C11 as claimed: once the state is Error, only a start() changes it.
C11_ErrorLeftOnlyByStart ==
  [][(internalState = ERROR /\ internalState' # ERROR) =>
       calls'[event'.call].op = "start"]_vars

\* C11 as amended: once the state is Error, del() and reset() leave it alone;
\* it is changed only by a start() taking the lock (to Starting) or by a
\* stop() taking the lock, on its own or as factoryReset()'s first step (to
\* Stopping), and a stop() that finds the lock free in Error does change it.
C11_ErrorLeftByStartOrStop ==
  [][internalState = ERROR =>
       /\ internalState' # ERROR =>
            /\ event'.type \in {"call", "wake"}
            /\ \/ event'.fn = "start" /\ internalState' = STARTING
               \/ StopChecked /\ internalState' = STOPPING
       /\ (StopChecked /\ currentType = "undefined") => internalState' = STOPPING
       /\ calls'[event'.call].op \in {"del", "reset"} => internalState' = ERROR]_vars

\* a stop() issued in Error has just moved the state to Stopping
C11_Witness ==
  /\ event.type = "call"
  /\ event.fn = "stop"
  /\ internalState = STOPPING
  /\ Len(emitted) >= 2
  /\ emitted[Len(emitted) - 1].state = ERROR
  /\ emitted[Len(emitted)].state = STOPPING

-----------------------------------------------------------------------------
(* C12 *)

\* C12: when a start(), stop(), del() or reset() call fails, the state is
\* Error once the failure has been reported.
C12_FailureMeansError ==
  [][\A c \in CallIds :
       (/\ calls'[c].op \in {"start", "stop", "del", "reset"}
        /\ calls[c].result # "failed"
        /\ calls'[c].result = "failed") => internalState' = ERROR]_vars

-----------------------------------------------------------------------------
(* C13 *)

\* the 'minikube start' children spawned for call c
StartsOf(c) == {p \in 1..Len(procs) : procs[p].owner = c /\ procs[p].kind = "start"}

\* C13: one start() call spawns at most two start children, at most one of
\* them nested; the exit of a nested child never asks for sudo again; and from
\* the moment the start takes the lock, through the sudo prompt, until the
\* nested start has finished, the lock stays 'start' and no other call changes
\* the state, notifies, spawns or takes the lock.
C13_EscalatesOnce ==
  /\ [](\A c \in CallIds :
          /\ Cardinality(StartsOf(c)) <= 2
          /\ Cardinality({p \in StartsOf(c) : procs[p].nested}) <= 1
          /\ calls[c].pc = "sudo" => (currentType = "start" /\ Holders = {c})
          /\ (\E p \in StartsOf(c) : procs[p].nested /\ procs[p].alive) =>
               (currentType = "start" /\ Holders = {c}))
  /\ [][(ExitOf("start") /\ procs[event'.proc].nested) =>
          /\ calls'[event'.call].pc = "done"
          /\ Len(procs') = Len(procs)
          /\ currentType' = "undefined"]_vars
  /\ [][\A c \in CallIds :
          (calls[c].fn = "start" /\ calls[c].pc \in {"exit", "sudo"}) =>
            /\ event'.call # c => Untouched
            /\ calls'[c].pc # "done" => currentType' = "start"]_vars

\* a start() escalated, its nested start ran and finished, and the call is over
C13_Witness ==
  \E c \in CallIds :
    /\ calls[c].pc = "done"
    /\ calls[c].found = STOPPED
    /\ Cardinality(StartsOf(c)) = 2
    /\ \E p \in StartsOf(c) : procs[p].nested /\ ~procs[p].alive

-----------------------------------------------------------------------------
(* C14 *)

\* C14: every client the controller ever constructed is the one it references
\* now or has been destroyed.
C14_OneClient ==
  \A k \in 1..Len(clients) : k = client \/ clients[k].shutdown

-----------------------------------------------------------------------------
(* C15 *)

\* C15: whenever subscribers were notified of Stopping, Stopped or Error while
\* the controller held a client, that client was not yet destroyed at the
\* moment of the notification.
C15_NotifiedBeforeTeardown ==
  \A i \in 1..Len(emitted) :
    (emitted[i].state \in {STOPPING, STOPPED, ERROR} /\ emitted[i].client # NoClient) =>
      emitted[i].live

-----------------------------------------------------------------------------
(* C16 *)

\* the step ran reset()'s wait loop for the call event'.call
ResetChecked == event'.type \in {"call", "wake"} /\ event'.fn = "reset"

\* C16: a reset() that finds the lock free and the state not Started returns
\* without error and changes nothing: no transition, no notification, no
\* child, the client and the lock as they were.
C16_ResetNoOp ==
  [][(ResetChecked /\ currentType = "undefined" /\ internalState # STARTED) =>
       /\ Untouched
       /\ procs' = procs
       /\ calls'[event'.call].pc = "done"
       /\ calls'[event'.call].result = "ok"]_vars

\* a reset() waited for the lock and woke in Error: it returned without error
C16_Witness ==
  /\ event.type = "wake"
  /\ event.fn = "reset"
  /\ calls[event.call].pc = "done"
  /\ calls[event.call].result = "ok"
  /\ internalState = ERROR

-----------------------------------------------------------------------------
(* C17 *)

\* C17: a reset() that finds the lock free and the state Started destroys the
\* old client and then either is still running its commands, or has ended in
\* Started with a fresh live client, or has ended in Error with the lock
\* released after one of its commands ended (the failing step).
C17_Reset ==
  [][(ResetChecked /\ currentType = "undefined" /\ internalState = STARTED) =>
       /\ clients'[client].shutdown
       /\ \/ calls'[event'.call].pc # "done"
          \/ /\ internalState' = STARTED
             /\ client' \notin {client, NoClient}
             /\ ~clients'[client'].shutdown
             /\ calls'[event'.call].result = "ok"
          \/ /\ internalState' = ERROR
             /\ currentType' = "undefined"
             /\ calls'[event'.call].result = "failed"
             /\ \E p \in 1..Len(procs') :
                  /\ procs'[p].owner = event'.call
                  /\ procs'[p].kind = "ssh"
                  /\ ~procs'[p].alive]_vars

-----------------------------------------------------------------------------
(* C18 *)

\* the kinds of the children spawned for call c, in the order of spawning
KindsOf(c) ==
  LET mine == SelectSeq(procs, LAMBDA p : p.owner = c)
  IN [i \in 1..Len(mine) |-> mine[i].kind]

\* factoryReset()'s steps in order, none after a failed one, and no start child
C18_InOrder ==
  /\ [](\A c \in CallIds : calls[c].op = "factoryReset" =>
          /\ KindsOf(c) \in {<< >>, << "stop" >>, << "delete" >>, << "stop", "delete" >>}
          /\ calls[c].pc = "rm" => (\E p \in 1..Len(procs) :
                                      procs[p].owner = c /\ procs[p].kind = "delete"))
  /\ [][(event'.type = "exit" /\ calls[event'.call].op = "factoryReset") =>
          /\ (ExitOf("stop") /\ event'.code \notin {0, NoCode}) =>
               (calls'[event'.call].pc = "done" /\ calls'[event'.call].result = "failed"
                  /\ Len(procs') = Len(procs))
          /\ (ExitOf("stop") /\ event'.code \in {0, NoCode}) =>
               (calls'[event'.call].pc = "exit" /\ Len(procs') = Len(procs) + 1
                  /\ procs'[Len(procs')].kind = "delete")
          /\ (ExitOf("delete") /\ event'.code # 0) =>
               (calls'[event'.call].pc = "done" /\ calls'[event'.call].result = "failed")]_vars

\* C18: factoryReset() runs stop (only if not Stopped), delete, then the
\* removal, in this order and none after a failed one, spawns no start child,
\* and when it succeeds the state is Stopped and there is no client.
C18_FactoryReset ==
  /\ C18_InOrder
  /\ [][(event'.type = "rm" /\ calls'[event'.call].result = "ok") =>
          (internalState' = STOPPED /\ client' = NoClient)]_vars

-----------------------------------------------------------------------------
(* C19 *)

\* the servers ever created for a key
ServersOf(k) == {s \in 1..Len(netServers) : netServers[s].key = k}

\* a cancelForwardPort for key k was issued
Cancelled(k) ==
  \E r \in RequestIds : requests[r].op = "cancelForwardPort" /\ Key(requests[r].target) = k

\* C19: two forwardPort calls for the same triple, with no cancel for it and
\* its listener bound, both return the listener's local port, and one
\* listener was created for the triple.
C19_SamePortOneListener ==
  \A r1, r2 \in RequestIds :
    (/\ r1 < r2
     /\ requests[r1].op = "forwardPort"
     /\ requests[r2].op = "forwardPort"
     /\ requests[r1].target = requests[r2].target
     /\ requests[r1].pc = "done"
     /\ requests[r2].pc = "done"
     /\ ~Cancelled(Key(requests[r1].target))
     /\ \A s \in ServersOf(Key(requests[r1].target)) : netServers[s].state = "listening") =>
      /\ requests[r1].status = "ok"
      /\ requests[r2].status = "ok"
      /\ requests[r1].port # NoPort
      /\ requests[r1].port = requests[r2].port
      /\ Cardinality(ServersOf(Key(requests[r1].target))) = 1

-----------------------------------------------------------------------------
(* C20 *)

\* what a step does for the cancelForwardPort calls it starts or ends
CancelStep ==
     /\ kevent'.type = "cancelForwardPort" =>
          LET r == kevent'.request
              key == Key(requests'[r].target)
          IN IF servers[key] = NoServer
               THEN /\ servers' = servers
                    /\ netServers' = netServers
                    /\ notified' = notified
                    /\ requests'[r].pc = "done"
                    /\ requests'[r].status = "ok"
                    /\ requests'[r].emits = 0
               ELSE /\ servers'[key] = NoServer
                    /\ notified' = notified
                    /\ requests'[r].pc = "closing"
                    /\ requests'[r].server = servers[key]
     /\ \A r \in RequestIds :
          (requests[r].pc = "closing" /\ requests'[r].pc = "done") =>
            /\ requests'[r].status = "ok"
            /\ requests'[r].emits = 1
            /\ Len(notified') = Len(notified) + 1
            /\ notified'[Len(notified')].by = r
            /\ servers'[Key(requests[r].target)] # requests[r].server
            /\ netServers'[requests[r].server].state # "listening"
            /\ ~netServers'[requests[r].server].closing

\* C20: a cancelForwardPort for a triple with no entry returns at once and
\* changes and emits nothing; one for a triple with an entry removes the entry
\* and emits nothing before the listener's closure; and when it returns, it
\* returns without error, the listener it removed is closed and no longer
\* registered, and it emitted service-changed exactly once, as its last act.
C20_CancelEmitsIffRemoved == [][CancelStep]_vars

-----------------------------------------------------------------------------
(* C21 *)

\* C21: in every state listServices() returns normally, and an entry has a
\* listenPort exactly when a listening server is registered for the entry's
\* key, in which case the listenPort is that server's local port.
C21_ListServices ==
  /\ ~listServicesThrows(Kube)
  /\ \A e \in services :
       LET s == MapGet(servers, Key(e))
       IN /\ (listServices(Kube)[e] # NoPort) <=>
               (s # NoServer /\ netServers[s].state = "listening")
          /\ (listServices(Kube)[e] # NoPort) => listServices(Kube)[e] = netServers[s].port

-----------------------------------------------------------------------------
(* C22 *)

\* C22: a forwardPort whose listener is still binding and whose entry a
\* cancelForwardPort has removed completes without error and with no port.
C22_CancelledForwardHasNoPort ==
  [][\A r \in RequestIds :
       (/\ requests[r].op = "forwardPort"
        /\ requests[r].pc = "binding"
        /\ requests'[r].pc = "done"
        /\ MapGet(servers, Key(requests[r].target)) # requests[r].server) =>
         (requests'[r].status = "ok" /\ requests'[r].port = NoPort)]_vars

-----------------------------------------------------------------------------
(* C23 *)

\* C23: once destroy() has run the client is shut down and has no
\* subscriber, no listener destroy() closed is listening (not even one that
\* was binding then), and no service-changed emitted afterwards is heard.
C23_Destroyed ==
  /\ [](shutdown => subscribers = 0)
  /\ [](\A s \in 1..Len(netServers) :
          netServers[s].destroyed => netServers[s].state # "listening")
  /\ [][kevent'.type = "destroy" =>
          /\ shutdown'
          /\ \A k \in Keys : servers[k] # NoServer => netServers'[servers[k]].destroyed]_vars
  /\ [][shutdown =>
          \A i \in (Len(notified) + 1)..Len(notified') : notified'[i].heard = 0]_vars
  /\ [][shutdown => shutdown']_vars

-----------------------------------------------------------------------------
(* C25 *)

\* C25: createForwardingServer registers its new listener at once, and when
\* the listener reports an error or closes before it is bound, the call
\* fails and the listener is no longer registered for its key.
C25_FailedSetupUnregisters ==
  [][/\ \A r \in RequestIds :
          requests'[r].pc = "binding" =>
            /\ MapGet(servers', Key(requests'[r].target)) = requests'[r].server
               \/ requests[r].pc = "binding"
            /\ requests[r].pc # "binding" =>
                 netServers'[requests'[r].server].state = "binding"
     /\ \A r \in RequestIds :
          (/\ requests[r].pc = "binding"
           /\ requests'[r].pc = "done"
           /\ kevent'.type \in {"error", "close"}) =>
            /\ requests'[r].status = "failed"
            /\ MapGet(servers', Key(requests[r].target)) # requests[r].server]_vars

-----------------------------------------------------------------------------
(* C26 *)

\* the call that created server s no longer awaits it
SetUp(s) == Binding(requests, s) = {}

\* C26: every listening server whose setup is over is the one registered for
\* its key.
C26_NoOrphan ==
  \A s \in 1..Len(netServers) :
    (netServers[s].state = "listening" /\ SetUp(s)) =>
      MapGet(servers, netServers[s].key) = s

-----------------------------------------------------------------------------
(* C27 *)

\* a call for one key leaves the entries and the servers of every other key alone
OtherKeysUntouched ==
  (kevent'.type \in {"forwardPort", "cancelForwardPort"}) =>
    LET key == Key(requests'[kevent'.request].target)
    IN /\ \A k \in Keys \ {key} : servers'[k] = servers[k]
       /\ \A s \in 1..Len(netServers) :
            netServers[s].key # key => netServers'[s] = netServers[s]
       /\ \A s \in (Len(netServers) + 1)..Len(netServers') : netServers'[s].key = key

\* C27: at most one server listens per key, the servers registered for
\* different keys are different servers, each registered under its own key,
\* and a call for one key leaves the entries and servers of other keys alone.
C27_OneListenerPerKey ==
  /\ [](\A s, t \in 1..Len(netServers) :
          (/\ netServers[s].state = "listening"
           /\ netServers[t].state = "listening"
           /\ netServers[s].key = netServers[t].key) => s = t)
  /\ [](\A k \in Keys : servers[k] # NoServer => netServers[servers[k]].key = k)
  /\ [][OtherKeysUntouched]_vars

-----------------------------------------------------------------------------
(* C28 *)

\* C28: a connection is relayed only when, at the end of the pod resolution,
\* a pod was found, the table has an entry for the connection's key and the
\* client is not shut down.
C28_RelayedOnlyIfWanted ==
  [][\A c \in 1..Len(conns) :
       (conns[c].outcome # "relayed" /\ conns'[c].outcome = "relayed") =>
         /\ conns'[c].pod = "pod"
         /\ MapGet(servers, conns[c].key) # NoServer
         /\ ~shutdown]_vars

-----------------------------------------------------------------------------
(* C29 *)

\* C29: while the client is not shut down, an answer that names no pod sends
\* getActivePod to sleep and the end of the sleep makes it ask again, whatever
\* went before; it returns null only after shutdown or for a reference without
\* name or namespace; and once the client is shut down, every getActivePod
\* call in progress returns.
C29_Polling ==
  /\ [][\A c \in 1..Len(conns) :
          /\ (/\ ~shutdown
              /\ kevent'.type = "endpoints"
              /\ kevent'.conn = c
              /\ kevent'.outcome = "none") => conns'[c].pc = "sleeping"
          /\ (~shutdown /\ kevent'.type = "retry" /\ kevent'.conn = c) =>
               conns'[c].pc = "listing"
          /\ (conns[c].pod # "null" /\ conns'[c].pod = "null") =>
               (shutdown \/ kevent'.outcome = "unusable ref")]_vars
  /\ [](shutdown => <>(\A c \in 1..Len(conns) : conns[c].pc = "done"))

\* a getActivePod call that had gone to sleep returned null after the shutdown
C29_Witness ==
  /\ shutdown
  /\ kevent.type = "retry"
  /\ conns[kevent.conn].pc = "done"
  /\ conns[kevent.conn].pod = "null"

-----------------------------------------------------------------------------
(* C24 *)

\* requiresRestartReasons() returned in this step
Answered == reasons' # reasons /\ reasons'.pc = "done" /\ reasons'.status = "ok"

\* no running configuration: the state is not STARTED or there is no file
NoConfig == IF reasons.pc = "reading" THEN configFile.error = "ENOENT" ELSE internalState # STARTED

\* the stored value and the wanted value of each key
Actual(k) ==
  CASE k = "cpu" -> Number(configFile.CPUs, 1)
    [] k = "memory" -> Number(configFile.Memory, 1024)
    [] OTHER -> configFile.Bootstrapper

Desired(k) ==
  CASE k = "cpu" -> Number(cfg.numberCPUs, 1)
    [] k = "memory" -> Number(cfg.memoryInGB, 1)
    [] OTHER -> "k3s"

\* C24, as stated: requiresRestartReasons() returns an empty mapping when
\* there is no running configuration, and otherwise a mapping that has a key
\* exactly when the stored and the wanted value differ, with value
\* [actual, desired].
C24_DiffersOnly ==
  [][Answered =>
       IF NoConfig
         THEN reasons'.value = NoReasons
         ELSE /\ DOMAIN reasons'.value = {k \in ReasonKeys : Actual(k) # Desired(k)}
              /\ \A k \in DOMAIN reasons'.value :
                   reasons'.value[k] = << Actual(k), Desired(k) >>]_vars

\* C24, amended: requiresRestartReasons() returns an empty mapping when there
\* is no running configuration, and otherwise a mapping with all three keys,
\* whose value is [actual, desired] when the stored and the wanted value
\* differ and the empty tuple when they match.
C24_AllKeys ==
  [][Answered =>
       IF NoConfig
         THEN reasons'.value = NoReasons
         ELSE /\ DOMAIN reasons'.value = ReasonKeys
              /\ \A k \in ReasonKeys :
                   reasons'.value[k] =
                     IF Actual(k) # Desired(k) THEN << Actual(k), Desired(k) >> ELSE << >>]_vars

\* stored CPUs 2, wanted 4, the bootstrapper as wanted: {cpu: [2, 4]} and more
C24_Witness ==
  /\ reasons.pc = "done"
  /\ reasons.status = "ok"
  /\ DOMAIN reasons.value = ReasonKeys
  /\ reasons.value["cpu"] = << Number(2, 1), Number(4, 1) >>
  /\ reasons.value["bootstrapper"] = << >>

-----------------------------------------------------------------------------
(* C30 *)

\* C30: no step taken for a start() that took the lock in a state other than
\* Stopped (its entry, the exit of a child of its own, its sudo prompt)
\* changes the state or the held client or emits a state-changed event.
C30_RejectedStartChangesNothing ==
  [][\A c \in CallIds :
       (/\ calls'[c].op = "start"
        /\ calls'[c].found \notin {NoCode, STOPPED}
        /\ event'.call = c) =>
         /\ internalState' = internalState
         /\ client' = client
         /\ emitted' = emitted]_vars

-----------------------------------------------------------------------------
(* C32 *)

\* C32: when destroy() returns the forwarding table has no entry: a get or a
\* has finds nothing for any key.
C32_DestroyEmptiesTable ==
  [][kevent'.type = "destroy" => \A k \in Keys : MapGet(servers', k) = NoServer]_vars

-----------------------------------------------------------------------------
(* C34 *)

\* factoryReset() call c has taken the lock for its delete step and has not
\* finished the removal of the data
InRemoval(c) ==
  /\ calls[c].op = "factoryReset"
  /\ calls[c].pc \in {"exit", "rm"}
  /\ \E p \in 1..Len(procs) : procs[p].owner = c /\ procs[p].kind = "delete"

\* C34: while a factoryReset() is between taking the lock for its delete step
\* and the end of its removal of the data, no start becomes the current
\* operation and no 'minikube start' child is spawned.
C34_NoStartDuringFactoryReset ==
  [][(\E c \in CallIds : InRemoval(c)) =>
       /\ currentType' = "start" => currentType = "start"
       /\ \A p \in (Len(procs) + 1)..Len(procs') : procs'[p].kind # "start"]_vars

-----------------------------------------------------------------------------
(* C35 *)

\* C35: when every child exits and every sudo prompt is answered, an
\* operation that is current is followed by a state in which none is.
C35_LockReleased ==
  /\ [](Len(procs) <= 2 * MaxCalls)
  /\ [](currentType # "undefined" => <>(currentType = "undefined"))

\* the sudo prompt was refused and the lock is free again
C35_Witness ==
  /\ event.type = "sudo"
  /\ ~event.ok
  /\ currentType = "undefined"

-----------------------------------------------------------------------------
(* C31 *)

-----------------------------------------------------------------------------
(* C33 *)

====
